---- MODULE Spec2Model ----
(***************************************************************************)
(* Ledger engine of src/lao.py: Account (deposit, withdraw, transfer),     *)
(* Transaction.reverse and Bank.close_account (Spec, SpecLedger), Loan     *)
(* (SpecLoan, SpecSchedule) and the registries of Bank (SpecBank).         *)
(*                                                                         *)
(* Money is decimal.Decimal under getcontext().prec = 4.  Every amount in  *)
(* the model is an integer number of cents; a Decimal operation computes   *)
(* the exact result and rounds it to Prec significant digits, half-even,   *)
(* exactly as the decimal context does.  Comparisons are exact, and so is  *)
(* the construction of a Decimal from a string.                            *)
(***************************************************************************)
EXTENDS Integers, Sequences, FiniteSets, TLC

(* ------------------------------------------------------------------ *)
(* Program constants (amounts in cents)                                *)
(* ------------------------------------------------------------------ *)
Prec == 4
MIN_DEPOSIT == 5000
MIN_WITHDRAWAL == 2000
MAX_DAILY_WITHDRAWAL == 500000

(* ------------------------------------------------------------------ *)
(* Bounds of the model                                                 *)
(* ------------------------------------------------------------------ *)
(* number of Transaction objects the model lets the program create *)
MaxTxns == 4

Accounts == {"ACC-2001", "ACC-2002"}
NoAccount == "none"

(* an argument the caller passes: its Python type and its value in cents *)
Arg(type, value) == [type |-> type, value |-> value]
Dec(value) == Arg("Decimal", value)

DepositInputs ==
    {Arg("int", 10000), Arg("str", 20001)}
        \cup {Dec(v) : v \in {0, 4999, 20001}}
WithdrawInputs ==
    {Arg("int", 10000)}
        \cup {Dec(v) : v \in {-100, 0, 1999, 2000, 20001, 500001}}
TransferInputs ==
    {Dec(v) : v \in {0, 1999, 3000, 12345, 500001}}

(* ------------------------------------------------------------------ *)
(* Decimal arithmetic under the context precision                      *)
(* ------------------------------------------------------------------ *)
RECURSIVE Pow10(_)
Pow10(k) == IF k = 0 THEN 1 ELSE 10 * Pow10(k - 1)

(* the power of ten that leaves at most Prec digits of n *)
RECURSIVE Scale(_)
Scale(n) == IF n < Pow10(Prec) THEN 1 ELSE 10 * Scale(n \div 10)

(* ROUND_HALF_EVEN to Prec significant digits *)
RoundPrec(x) ==
    LET n == IF x < 0 THEN -x ELSE x
        p == Scale(n)
        q == n \div p
        r == n % p
        up == (2 * r > p) \/ (2 * r = p /\ q % 2 = 1)
        m == (IF up THEN q + 1 ELSE q) * p
    IN IF x < 0 THEN -m ELSE m

DecAdd(x, y) == RoundPrec(x + y)
DecSub(x, y) == RoundPrec(x - y)
DecNeg(x) == RoundPrec(-x)

(* ------------------------------------------------------------------ *)
(* Decimal values of any exponent (loans)                              *)
(* ------------------------------------------------------------------ *)
(* A Decimal is c * 10^e, kept with c not divisible by 10 (zero is     *)
(* c = 0, e = 0): every operation of the decimal module used by the    *)
(* program depends on the value only, not on its trailing zeros.       *)
(* F applied to the values of its operands, each evaluated once *)
Val1(x, F(_)) == CHOOSE r \in {F(v) : v \in {x}} : TRUE
Val2(x, y, F(_, _)) == CHOOSE r \in {F(v, w) : v \in {x}, w \in {y}} : TRUE

RECURSIVE D_norm(_, _)
D_norm(c0, e) ==
    Val1(c0, LAMBDA c :
        IF c = 0 THEN [c |-> 0, e |-> 0]
        ELSE IF c % 10 = 0 THEN D_norm(c \div 10, e + 1)
        ELSE [c |-> c, e |-> e])

D(c, e) == D_norm(c, e)
D_zero == D(0, 0)

Abs(n) == IF n < 0 THEN -n ELSE n

(* number of decimal digits of n >= 0 *)
Digits(n) ==
    IF n < 10 THEN 1 ELSE IF n < 100 THEN 2 ELSE IF n < 1000 THEN 3
    ELSE IF n < 10000 THEN 4 ELSE IF n < 100000 THEN 5
    ELSE IF n < 1000000 THEN 6 ELSE IF n < 10000000 THEN 7
    ELSE IF n < 100000000 THEN 8 ELSE IF n < 1000000000 THEN 9 ELSE 10

(* n >= 0 rounded half-even to its leading prec digits: <<q, shift>> *)
RoundDigits(n0, prec) ==
    Val1(n0, LAMBDA n :
        IF Digits(n) <= prec THEN <<n, 0>>
        ELSE LET s == Digits(n) - prec
                 p == Pow10(s)
                 q == n \div p
                 r == n % p
                 up == (2 * r > p) \/ (2 * r = p /\ q % 2 = 1)
             IN <<IF up THEN q + 1 ELSE q, s>>)

(* the context rounding applied to c * 10^e *)
D_round(c0, e) ==
    Val2(c0, RoundDigits(Abs(c0), Prec), LAMBDA c, qs :
        D_norm((IF c < 0 THEN -1 ELSE 1) * qs[1], e + qs[2]))

Min2(a, b) == IF a <= b THEN a ELSE b

(* c of x at exponent e <= x.e *)
AtExp(x, e) == x.c * Pow10(x.e - e)

(* exact sign of x - y: -1, 0 or 1 *)
Adj(x) == Digits(Abs(x.c)) + x.e
Sgn(n) == IF n < 0 THEN -1 ELSE IF n > 0 THEN 1 ELSE 0
D_cmp(x0, y0) ==
    Val2(x0, y0, LAMBDA x, y :
    IF Sgn(x.c) # Sgn(y.c) THEN Sgn(Sgn(x.c) - Sgn(y.c))
    ELSE IF x.c = 0 THEN 0
    ELSE IF Adj(x) # Adj(y)
         THEN (IF Adj(x) < Adj(y) THEN -1 ELSE 1) * Sgn(x.c)
    ELSE LET e == Min2(x.e, y.e) IN Sgn(AtExp(x, e) - AtExp(y, e)))

D_lt(x, y) == D_cmp(x, y) < 0
D_le(x, y) == D_cmp(x, y) <= 0

(* an operand too small to reach the rounding digit of big is replaced *)
(* by one unit just below it (same rounded sum)                        *)
Sticky(big, small) ==
    LET exp == big.e + Min2(-1, Digits(Abs(big.c)) - Prec - 2)
    IN IF small.c # 0 /\ Adj(small) - 1 < exp
       THEN [c |-> Sgn(small.c), e |-> exp] ELSE small

D_add(x0, y0) ==
    Val2(x0, y0, LAMBDA x, y :
    IF x.c = 0 THEN D_round(y.c, y.e)
    ELSE IF y.c = 0 THEN D_round(x.c, x.e)
    ELSE LET x1 == IF y.e > x.e THEN Sticky(y, x) ELSE x
             y1 == IF x.e > y.e THEN Sticky(x, y) ELSE y
             e == Min2(x1.e, y1.e)
         IN D_round(AtExp(x1, e) + AtExp(y1, e), e))
D_neg(x0) == Val1(x0, LAMBDA x : D_round(-x.c, x.e))
D_sub(x, y0) == Val1(y0, LAMBDA y : D_add(x, [c |-> -y.c, e |-> y.e]))
D_mul(x0, y0) ==
    Val2(x0, y0, LAMBDA x, y : D_round(x.c * y.c, x.e + y.e))
D_abs(x0) == Val1(x0, LAMBDA x : D_round(Abs(x.c), x.e))
D_max(x0, y0) == Val2(x0, y0, LAMBDA x, y : IF D_lt(x, y) THEN y ELSE x)

(* x / y for x >= 0, y > 0, correctly rounded: the numerator is scaled *)
(* until the integer quotient has at least Prec digits, the remainder  *)
(* decides the rounding                                                 *)
RECURSIVE DivScale(_, _)
DivScale(n, d) ==
    IF n >= d * Pow10(Prec - 1) THEN 0 ELSE 1 + DivScale(n * 10, d)

D_div(x0, y0) ==
    Val2(x0, y0, LAMBDA x, y :
    IF x.c = 0 THEN D_zero
    ELSE Val1(DivScale(x.c, y.c), LAMBDA k :
         LET n == x.c * Pow10(k)
             q == n \div y.c
             rem == n % y.c
             s == Digits(q) - Prec
             p == Pow10(s)
             q2 == q \div p
             r2 == q % p
             up == IF s = 0
                   THEN (2 * rem > y.c) \/ (2 * rem = y.c /\ q % 2 = 1)
                   ELSE (2 * r2 > p)
                        \/ (2 * r2 = p /\ (rem > 0 \/ q2 % 2 = 1))
         IN D_norm(IF up THEN q2 + 1 ELSE q2, x.e - y.e - k + s)))

(* a * b for a, b < 10^8, rounded half-even to prec <= 8 digits, by    *)
(* four-digit limbs: <<q, shift>> with a * b ~ q * 10^shift            *)
MulRound(a, b, prec) ==
    LET B == 10000
        p0 == (a % B) * (b % B)
        p1 == (a \div B) * (b % B) + (a % B) * (b \div B)
        p2 == (a \div B) * (b \div B)
        losum == p0 + (p1 % B) * B
        lo == losum % (B * B)
        hi == p2 + (p1 \div B) + (losum \div (B * B))
    IN Val2(hi, lo, LAMBDA h, l :
       IF h = 0 THEN RoundDigits(l, prec)
       ELSE LET s == Digits(h) + 8 - prec
                p == Pow10(s)
                q == h * Pow10(8 - s) + (l \div p)
                r == l % p
                up == (2 * r > p) \/ (2 * r = p /\ q % 2 = 1)
            IN <<IF up THEN q + 1 ELSE q, s>>)

(* the bits of n below its leading one, most significant first *)
RECURSIVE Bits(_)
Bits(n) == IF n <= 1 THEN <<>> ELSE Append(Bits(n \div 2), n % 2)

(* x ** n for an integer n >= 1 and x > 0: square and multiply from    *)
(* the leading bit at Prec + Digits(n) + 2 digits, then the context    *)
(* rounding (the integer power of the decimal module)                  *)
RECURSIVE PowBits(_, _, _, _)
PowBits(r0, x, bits0, w) ==
    Val2(r0, bits0, LAMBDA r, bits :
    IF bits = <<>> THEN r
    ELSE Val1(MulRound(r.c, r.c, w), LAMBDA sq :
         Val1(D_norm(sq[1], 2 * r.e + sq[2]), LAMBDA r1 :
         LET ml == MulRound(r1.c, x.c, w)
             r2 == IF Head(bits) = 1
                   THEN D_norm(ml[1], r1.e + x.e + ml[2]) ELSE r1
         IN PowBits(r2, x, Tail(bits), w))))

D_pow(x0, n) ==
    Val1(x0, LAMBDA x :
    Val1(PowBits(x, x, Bits(n), Prec + Digits(n) + 2), LAMBDA r :
         D_round(r.c, r.e)))

(* x.quantize(Decimal('0.01')) for x >= 0: the value at exponent -2,   *)
(* InvalidOperation when its coefficient needs more than Prec digits   *)
D_quantize2(x0) ==
    Val1(x0, LAMBDA x :
    LET q == IF x.e >= -2 THEN
                 (IF x.c = 0 THEN 0
                  ELSE IF Adj(x) + 2 > Prec + 1 THEN Pow10(Prec)
                  ELSE x.c * Pow10(x.e + 2))
             ELSE LET p == Pow10(-2 - x.e)
                      k == x.c \div p
                      r == x.c % p
                      up == (2 * r > p) \/ (2 * r = p /\ k % 2 = 1)
                  IN IF up THEN k + 1 ELSE k
    IN IF Digits(q) > Prec
       THEN [err |-> "InvalidOperation", val |-> D_zero]
       ELSE [err |-> "ok", val |-> D_norm(q, -2)])

(* ------------------------------------------------------------------ *)
(* State                                                               *)
(* ------------------------------------------------------------------ *)
(* balance, is_active, transactions: the fields of each Account        *)
(* accounts: Bank.accounts, identifier -> Account                      *)
(* result: the outcome of the last call: the call and its arguments,   *)
(*   the error raised ("ok" when it returned) and the function that    *)
(*   raised it, the position of the returned Transaction in the ledger *)
(*   of acct, and the balance of acct when the call was made           *)
(* loan: the Loan object under study (NoLoan when there is none)       *)
(* bank: the customers and loans of the Bank and of its Customers, and *)
(* the id and customer of each Account (NoBank when there is none)     *)
VARIABLES balance, is_active, transactions, accounts, result, loan, bank

vars == <<balance, is_active, transactions, accounts, result, loan, bank>>

(* Transaction.__init__; of is the position of the Transaction a       *)
(* reversal was made from (its id is "RVSL-" + the id of that one)      *)
Transaction(amount, type, of) ==
    [amount |-> amount, type |-> type, status |-> "completed", of |-> of]

NoLoan == "none"
(* no Bank to hold the accounts *)
NoBank == "none"

NoResult == [op |-> "init", acct |-> NoAccount, amount |-> Dec(0),
             recipient |-> NoAccount, idx |-> 0, err |-> "ok",
             raised_by |-> "", ret |-> 0, before |-> 0]

Init ==
    /\ balance = [a \in Accounts |-> 0]
    /\ is_active = [a \in Accounts |-> TRUE]
    /\ transactions = [a \in Accounts |-> <<>>]
    /\ accounts = [id \in Accounts |-> id]
    /\ result = NoResult
    /\ loan = NoLoan
    /\ bank = NoBank

RECURSIVE SumOver(_, _)
SumOver(S, f) ==
    IF S = {} THEN 0
    ELSE LET x == CHOOSE y \in S : TRUE IN f[x] + SumOver(S \ {x}, f)

Created(txs) == SumOver(Accounts, [a \in Accounts |-> Len(txs[a])])

Bounded == Created(transactions') <= MaxTxns

(* ------------------------------------------------------------------ *)
(* Account                                                             *)
(* ------------------------------------------------------------------ *)
(* _validate_amount: the error it raises, "ok" when it returns *)
validate_amount_err(arg) ==
    IF arg.type \notin {"Decimal", "float", "str"} THEN "InvalidAmount"
    ELSE IF arg.value <= 0 THEN "InvalidAmount"
    ELSE "ok"

(* _validate_amount: the Decimal it returns.  A Decimal is returned as  *)
(* it is; Decimal(str(x)) of a float or str with two fractional digits  *)
(* is exact, the context precision does not apply to construction       *)
validate_amount(arg) == arg.value

deposit_err(arg) ==
    IF validate_amount_err(arg) # "ok" THEN validate_amount_err(arg)
    ELSE IF validate_amount(arg) < MIN_DEPOSIT THEN "BelowMinimum"
    ELSE "ok"

(* withdraw without the check of the balance *)
withdraw_err_NoFundsCheck(arg, active, bal) ==
    IF validate_amount_err(arg) # "ok" THEN validate_amount_err(arg)
    ELSE IF ~active THEN "AccountInactive"
    ELSE IF validate_amount(arg) < MIN_WITHDRAWAL THEN "BelowMinimum"
    ELSE IF validate_amount(arg) > MAX_DAILY_WITHDRAWAL THEN "ExceedsDailyLimit"
    ELSE "ok"

(* withdraw checking the minimum before the activity of the account *)
withdraw_err_MinimumFirst(arg, active, bal) ==
    IF validate_amount_err(arg) # "ok" THEN validate_amount_err(arg)
    ELSE IF validate_amount(arg) < MIN_WITHDRAWAL THEN "BelowMinimum"
    ELSE IF ~active THEN "AccountInactive"
    ELSE IF validate_amount(arg) > MAX_DAILY_WITHDRAWAL THEN "ExceedsDailyLimit"
    ELSE IF validate_amount(arg) > bal THEN "InsufficientFunds"
    ELSE "ok"

withdraw_err(arg, active, bal) ==
    IF validate_amount_err(arg) # "ok" THEN validate_amount_err(arg)
    ELSE IF ~active THEN "AccountInactive"
    ELSE IF validate_amount(arg) < MIN_WITHDRAWAL THEN "BelowMinimum"
    ELSE IF validate_amount(arg) > MAX_DAILY_WITHDRAWAL THEN "ExceedsDailyLimit"
    ELSE IF validate_amount(arg) > bal THEN "InsufficientFunds"
    ELSE "ok"

(* the function an error of deposit / withdraw is raised by *)
RaisedBy(arg, f) ==
    IF validate_amount_err(arg) # "ok" THEN "_validate_amount" ELSE f

(* the balance and ledgers after the body of a successful deposit /     *)
(* withdraw on account a                                                *)
deposit_apply(bal, txs, a, amount) ==
    [balance |-> [bal EXCEPT ![a] = DecAdd(@, amount)],
     transactions |-> [txs EXCEPT
         ![a] = Append(@, Transaction(amount, "deposit", 0))]]

(* withdraw putting its Transaction in the place of the last one *)
withdraw_apply_ReplaceLast(bal, txs, a, amount) ==
    [balance |-> [bal EXCEPT ![a] = DecSub(@, amount)],
     transactions |-> [txs EXCEPT
         ![a] = IF @ = <<>>
                THEN <<Transaction(DecNeg(amount), "withdrawal", 0)>>
                ELSE [@ EXCEPT ![Len(@)] =
                         Transaction(DecNeg(amount), "withdrawal", 0)]]]
withdraw_apply(bal, txs, a, amount) ==
    [balance |-> [bal EXCEPT ![a] = DecSub(@, amount)],
     transactions |-> [txs EXCEPT
         ![a] = Append(@, Transaction(DecNeg(amount), "withdrawal", 0))]]

Call(op, a, arg) ==
    [NoResult EXCEPT !.op = op, !.acct = a, !.amount = arg,
                     !.before = balance[a]]

deposit(a, arg) ==
    LET err == deposit_err(arg)
        s == deposit_apply(balance, transactions, a, validate_amount(arg))
    IN
    /\ IF err # "ok"
       THEN /\ UNCHANGED <<balance, transactions>>
            /\ result' = [Call("deposit", a, arg) EXCEPT
                              !.err = err, !.raised_by = RaisedBy(arg, "deposit")]
       ELSE /\ balance' = s.balance
            /\ transactions' = s.transactions
            /\ result' = [Call("deposit", a, arg) EXCEPT
                              !.ret = Len(s.transactions[a])]
    /\ Bounded
    /\ UNCHANGED <<is_active, accounts, loan, bank>>

withdraw(a, arg) ==
    LET err == withdraw_err(arg, is_active[a], balance[a])
        s == withdraw_apply(balance, transactions, a, validate_amount(arg))
    IN
    /\ IF err # "ok"
       THEN /\ UNCHANGED <<balance, transactions>>
            /\ result' = [Call("withdraw", a, arg) EXCEPT
                              !.err = err, !.raised_by = RaisedBy(arg, "withdraw")]
       ELSE /\ balance' = s.balance
            /\ transactions' = s.transactions
            /\ result' = [Call("withdraw", a, arg) EXCEPT
                              !.ret = Len(s.transactions[a])]
    /\ Bounded
    /\ UNCHANGED <<is_active, accounts, loan, bank>>

(* transfer: validation, the two checks on the recipient, self.withdraw, *)
(* recipient.deposit, then the transfer record appended to the sender.   *)
(* Nothing catches an exception of recipient.deposit, so it propagates   *)
(* with the effect of self.withdraw in place.                            *)
(* transfer: the error it ends with and the function raising it, with    *)
(* self.withdraw called before the checks on the recipient               *)
transfer_err_WithdrawFirst(arg, a, r, active, bal) ==
    IF validate_amount_err(arg) # "ok"
    THEN [err |-> validate_amount_err(arg), raised_by |-> "_validate_amount"]
    ELSE IF withdraw_err(arg, active[a], bal[a]) # "ok"
    THEN [err |-> withdraw_err(arg, active[a], bal[a]),
          raised_by |-> "withdraw"]
    ELSE IF a = r
    THEN [err |-> "SameAccount", raised_by |-> "transfer"]
    ELSE IF ~active[r]
    THEN [err |-> "RecipientInactive", raised_by |-> "transfer"]
    ELSE IF deposit_err(arg) # "ok"
    THEN [err |-> deposit_err(arg), raised_by |-> "deposit"]
    ELSE [err |-> "ok", raised_by |-> ""]
transfer_err(arg, a, r, active, bal) ==
    IF validate_amount_err(arg) # "ok"
    THEN [err |-> validate_amount_err(arg), raised_by |-> "_validate_amount"]
    ELSE IF a = r
    THEN [err |-> "SameAccount", raised_by |-> "transfer"]
    ELSE IF ~active[r]
    THEN [err |-> "RecipientInactive", raised_by |-> "transfer"]
    ELSE IF withdraw_err(arg, active[a], bal[a]) # "ok"
    THEN [err |-> withdraw_err(arg, active[a], bal[a]),
          raised_by |-> "withdraw"]
    ELSE IF deposit_err(arg) # "ok"
    THEN [err |-> deposit_err(arg), raised_by |-> "deposit"]
    ELSE [err |-> "ok", raised_by |-> ""]

(* transfer: the balances and ledgers it leaves, its error and the     *)
(* position in the ledger of a of the transfer record it returns       *)
transfer_apply(bal, txs, active, a, arg, r) ==
    LET amount == validate_amount(arg)
        e == transfer_err(arg, a, r, active, bal)
        s1 == withdraw_apply(bal, txs, a, amount)
        s2 == deposit_apply(s1.balance, s1.transactions, r, amount)
        txs3 == [s2.transactions EXCEPT
                    ![a] = Append(@, Transaction(DecNeg(amount), "transfer", 0))]
    IN IF e.err = "ok"
       THEN [balance |-> s2.balance, transactions |-> txs3,
             err |-> "ok", raised_by |-> "", ret |-> Len(txs3[a])]
       ELSE IF e.raised_by = "deposit"
       THEN [balance |-> s1.balance, transactions |-> s1.transactions,
             err |-> e.err, raised_by |-> e.raised_by, ret |-> 0]
       ELSE [balance |-> bal, transactions |-> txs,
             err |-> e.err, raised_by |-> e.raised_by, ret |-> 0]

transfer(a, arg, r) ==
    /\ \E o \in {transfer_apply(balance, transactions, is_active, a, arg, r)} :
          /\ balance' = o.balance
          /\ transactions' = o.transactions
          /\ result' = [Call("transfer", a, arg) EXCEPT
                            !.recipient = r, !.err = o.err,
                            !.raised_by = o.raised_by, !.ret = o.ret]
    /\ Bounded
    /\ UNCHANGED <<is_active, accounts, loan, bank>>

(* ------------------------------------------------------------------ *)
(* Transaction.reverse on the i-th Transaction of account a            *)
(* ------------------------------------------------------------------ *)
(* reverse without the check of the status *)
reverse_err_NoStatusCheck(t) == "ok"

reverse_err(t) ==
    IF t.status # "completed" THEN "NotCompleted" ELSE "ok"

(* self.account.balance += self.amount *)
reverse_balance(bal, t) == DecAdd(bal, t.amount)

reverse(a, i) ==
    LET t == transactions[a][i]
        call == [NoResult EXCEPT !.op = "reverse", !.acct = a, !.idx = i,
                                 !.before = balance[a]]
    IN
    /\ i \in 1..Len(transactions[a])
    /\ IF reverse_err(t) # "ok"
       THEN /\ UNCHANGED <<balance, transactions>>
            /\ result' = [call EXCEPT !.err = reverse_err(t),
                                      !.raised_by = "reverse"]
       ELSE /\ balance' = [balance EXCEPT ![a] = reverse_balance(@, t)]
            /\ transactions' = [transactions EXCEPT ![a] =
                  Append([@ EXCEPT ![i].status = "reversed"],
                         Transaction(DecNeg(t.amount), "reversal", i))]
            /\ result' = [call EXCEPT !.ret = Len(transactions[a]) + 1]
    /\ Bounded
    /\ UNCHANGED <<is_active, accounts, loan, bank>>

(* ------------------------------------------------------------------ *)
(* Bank                                                                *)
(* ------------------------------------------------------------------ *)
(* get_account: the error it raises *)
get_account_err(id) == IF accounts[id] = NoAccount THEN "NotFound" ELSE "ok"

get_account(id) ==
    /\ result' = [NoResult EXCEPT !.op = "get_account", !.acct = id,
                                  !.err = get_account_err(id),
                                  !.raised_by =
                                      IF get_account_err(id) = "ok"
                                      THEN "" ELSE "get_account"]
    /\ UNCHANGED <<balance, is_active, transactions, accounts, loan, bank>>

(* close_account, after get_account: the error it raises on a balance *)
close_account_err_NoBalanceCheck(bal) == "ok"
close_account_err(bal) == IF bal # 0 THEN "NonZeroBalance" ELSE "ok"

close_account(id) ==
    LET a == accounts[id]
        call == [NoResult EXCEPT !.op = "close_account", !.acct = id]
    IN
    IF get_account_err(id) # "ok"
    THEN /\ result' = [call EXCEPT !.err = get_account_err(id),
                                   !.raised_by = "get_account"]
         /\ UNCHANGED <<balance, is_active, transactions, accounts, loan, bank>>
    ELSE IF close_account_err(balance[a]) # "ok"
    THEN /\ result' = [call EXCEPT !.err = close_account_err(balance[a]),
                                   !.raised_by = "close_account",
                                   !.before = balance[a]]
         /\ UNCHANGED <<balance, is_active, transactions, accounts, loan, bank>>
    ELSE /\ is_active' = [is_active EXCEPT ![a] = FALSE]
         /\ accounts' = [accounts EXCEPT ![id] = NoAccount]
         /\ result' = [call EXCEPT !.before = balance[a]]
         /\ UNCHANGED <<balance, transactions, loan, bank>>

Next ==
    \/ \E a \in Accounts, arg \in DepositInputs : deposit(a, arg)
    \/ \E a \in Accounts, arg \in WithdrawInputs : withdraw(a, arg)
    \/ \E a, r \in Accounts, arg \in TransferInputs : transfer(a, arg, r)
    \/ \E a \in Accounts, i \in 1..MaxTxns : reverse(a, i)
    \/ \E id \in Accounts : close_account(id)
    \/ \E id \in Accounts : get_account(id)

Spec == Init /\ [][Next]_vars

(* ------------------------------------------------------------------ *)
(* Loan                                                                *)
(* ------------------------------------------------------------------ *)
MaxPayments == 3
MaxSchedulePayments == 13

LOAN_INTEREST_RATE == D(8, -2)
LOAN_TERM_YEARS == 5

(* the loans constructed: amount, interest_rate and term_years, all    *)
(* positive as Loan.__init__ asserts                                   *)
LoanAmounts == {D(1000, 0), D(10000, 0), D(99996, -2), D(99999, -3),
                D(119024, -2)}
LoanRates == {LOAN_INTEREST_RATE, D(5, -2), D(1, -4)}
LoanYears == {1, LOAN_TERM_YEARS}

PaymentInputs == {D(-5, 0), D_zero, D(666, -2), D(667, -2), D(100, 0),
                  D(20276, -2), D(123456, -2), D(20000, 0)}
SchedulePaymentInputs == {D(1, 0)}

(* Loan.__init__ *)
Loan(amount, interest_rate, term_years) ==
    [original_amount |-> amount, remaining_amount |-> amount,
     interest_rate |-> interest_rate, term_months |-> term_years * 12,
     payments |-> <<>>, is_active |-> TRUE]

Loans == {Loan(a, r, y) : a \in LoanAmounts, r \in LoanRates, y \in LoanYears}

(* LoanPayment.__init__: the error it raises *)
LoanPayment_err(amount, principal, interest) ==
    IF D_lt(D_abs(D_sub(D_add(principal, interest), amount)), D(1, -2))
    THEN "ok" ELSE "PaymentMismatch"

LoanPayment(amount, principal, interest) ==
    [amount |-> amount, principal |-> principal, interest |-> interest]

(* make_payment: the error raised before anything is computed *)
make_payment_err_NoActiveCheck(l, amount) ==
    IF D_le(amount, D_zero) THEN "InvalidAmount" ELSE "ok"
make_payment_err(l, amount) ==
    IF ~l.is_active THEN "LoanInactive"
    ELSE IF D_le(amount, D_zero) THEN "InvalidAmount"
    ELSE "ok"

(* make_payment past its two checks: the payment it builds *)
make_payment_split(l, amount) ==
    Val2(IF D_lt(l.remaining_amount, amount)
         THEN l.remaining_amount ELSE amount,
         D_mul(l.remaining_amount, D_div(l.interest_rate, D(12, 0))),
         LAMBDA capped, interest :
            IF D_le(capped, interest)
            THEN LoanPayment(capped, D_zero, capped)
            ELSE LoanPayment(capped, D_sub(capped, interest), interest))

(* make_payment: the loan it leaves, the error and the payment returned *)
make_payment_apply(l, amount) ==
    Val1(make_payment_split(l, amount), LAMBDA p :
    LET remaining == D_sub(l.remaining_amount, p.principal)
    IN IF make_payment_err(l, amount) # "ok"
       THEN [loan |-> l, err |-> make_payment_err(l, amount),
             raised_by |-> "make_payment", ret |-> <<>>]
       ELSE IF LoanPayment_err(p.amount, p.principal, p.interest) # "ok"
       THEN [loan |-> l,
             err |-> LoanPayment_err(p.amount, p.principal, p.interest),
             raised_by |-> "LoanPayment", ret |-> <<>>]
       ELSE [loan |-> [l EXCEPT !.remaining_amount = remaining,
                                !.payments = Append(@, p),
                                !.is_active =
                                    IF D_le(remaining, D_zero)
                                    THEN FALSE ELSE @],
             err |-> "ok", raised_by |-> "", ret |-> p])

LoanCall(op, amount) ==
    [op |-> op, amount |-> amount, err |-> "ok", raised_by |-> "",
     ret |-> <<>>, before |-> loan]

make_payment(amount) ==
    /\ \E r \in {make_payment_apply(loan, amount)} :
          /\ loan' = r.loan
          /\ result' = [LoanCall("make_payment", amount) EXCEPT
                            !.err = r.err, !.raised_by = r.raised_by,
                            !.ret = r.ret]
    /\ UNCHANGED <<balance, is_active, transactions, accounts, bank>>

(* calculate_monthly_payment: the error it raises and the value *)
calculate_monthly_payment(l) ==
    Val1(D_div(l.interest_rate, D(12, 0)), LAMBDA monthly_rate :
    Val1(D_pow(D_add(D(1, 0), monthly_rate), l.term_months), LAMBDA factor :
    Val1(D_sub(factor, D(1, 0)), LAMBDA denominator :
    LET numerator == D_mul(D_mul(l.original_amount, monthly_rate), factor)
    IN IF denominator.c = 0
       THEN [err |-> "DivisionByZero", val |-> D_zero]
       ELSE D_quantize2(D_div(numerator, denominator)))))

(* a call of calculate_monthly_payment on the loan *)
get_monthly_payment ==
    /\ \E r \in {calculate_monthly_payment(loan)} :
          result' = [LoanCall("calculate_monthly_payment", D_zero)
                        EXCEPT !.err = r.err,
                               !.raised_by =
                                   IF r.err = "ok" THEN ""
                                   ELSE "calculate_monthly_payment",
                               !.ret = r.val]
    /\ UNCHANGED <<balance, is_active, transactions, accounts, loan, bank>>

(* one pass of the loop of generate_amortization_schedule: the row    *)
(* appended for month, bal being the balance it starts with            *)
ScheduleRow(month, bal0, monthly_payment, monthly_rate, term_months) ==
    Val2(bal0, D_mul(bal0, monthly_rate), LAMBDA bal, interest :
    LET last == month = term_months
    IN Val1(IF last THEN bal ELSE D_sub(monthly_payment, interest),
            LAMBDA principal :
       [month |-> month,
        payment |-> IF last THEN D_add(principal, interest)
                    ELSE monthly_payment,
        principal |-> principal, interest |-> interest,
        balance |-> D_max(D_sub(bal, principal), D_zero)]))

(* the rows appended by the passes for months lo..hi, by halves: the   *)
(* loop breaks after a row whose balance is <= 0 (stored as 0), and    *)
(* otherwise goes on with the balance of the row                       *)
RECURSIVE ScheduleRows(_, _, _, _, _, _)
ScheduleRows(lo, hi, bal, monthly_payment, monthly_rate, term_months) ==
    IF lo = hi
    THEN <<ScheduleRow(lo, bal, monthly_payment, monthly_rate, term_months)>>
    ELSE LET mid == (lo + hi) \div 2
         IN Val1(ScheduleRows(lo, mid, bal, monthly_payment, monthly_rate,
                              term_months),
                 LAMBDA rows :
                    IF rows[Len(rows)].balance = D_zero THEN rows
                    ELSE rows \o ScheduleRows(mid + 1, hi,
                                              rows[Len(rows)].balance,
                                              monthly_payment, monthly_rate,
                                              term_months))

(* generate_amortization_schedule: the error it raises and the rows *)
amortization_schedule(l) ==
    Val2(calculate_monthly_payment(l), D_div(l.interest_rate, D(12, 0)),
         LAMBDA mp, monthly_rate :
            IF mp.err # "ok" THEN [err |-> mp.err, rows |-> <<>>]
            ELSE [err |-> "ok",
                  rows |-> ScheduleRows(1, l.term_months, l.original_amount,
                                        mp.val, monthly_rate,
                                        l.term_months)])

generate_amortization_schedule ==
    /\ \E r \in {amortization_schedule(loan)} :
          result' = [LoanCall("generate_amortization_schedule", D_zero)
                        EXCEPT !.err = r.err,
                               !.raised_by =
                                   IF r.err = "ok" THEN ""
                                   ELSE "calculate_monthly_payment",
                               !.ret = r.rows]
    /\ UNCHANGED <<balance, is_active, transactions, accounts, loan, bank>>

(* the rows get_remaining_payments keeps of a schedule *)
remaining_rows_FromNext(rows, payments_made) ==
    IF payments_made >= Len(rows) THEN <<>>
    ELSE SubSeq(rows, payments_made + 2, Len(rows))
remaining_rows(rows, payments_made) ==
    IF payments_made >= Len(rows) THEN <<>>
    ELSE SubSeq(rows, payments_made + 1, Len(rows))

get_remaining_payments ==
    /\ \E r \in {amortization_schedule(loan)} :
          result' = [LoanCall("get_remaining_payments", D_zero)
                        EXCEPT !.err = r.err,
                               !.raised_by =
                                   IF r.err = "ok" THEN ""
                                   ELSE "calculate_monthly_payment",
                               !.ret = IF r.err = "ok"
                                       THEN remaining_rows(r.rows,
                                                Len(loan.payments))
                                       ELSE <<>>]
    /\ UNCHANGED <<balance, is_active, transactions, accounts, loan, bank>>

InitLoan ==
    /\ balance = [a \in Accounts |-> 0]
    /\ is_active = [a \in Accounts |-> TRUE]
    /\ transactions = [a \in Accounts |-> <<>>]
    /\ accounts = [id \in Accounts |-> id]
    /\ result = NoResult
    /\ loan \in Loans
    /\ bank = NoBank

PaymentsBounded(n) == Len(loan'.payments) <= n

NextLoan ==
    \/ \E amount \in PaymentInputs :
           make_payment(amount) /\ PaymentsBounded(MaxPayments)
    \/ get_monthly_payment

SpecLoan == InitLoan /\ [][NextLoan]_vars

(* the schedule of a loan while payments are made on it *)
NextSchedule ==
    \/ \E amount \in SchedulePaymentInputs :
           make_payment(amount) /\ PaymentsBounded(MaxSchedulePayments)
    \/ generate_amortization_schedule
    \/ get_remaining_payments

SpecSchedule == InitLoan /\ [][NextSchedule]_vars

(* ------------------------------------------------------------------ *)
(* The ledger of an account read back                                  *)
(* ------------------------------------------------------------------ *)
(* the limit argument of get_transaction_history: None or an integer *)
NoLimit == [given |-> FALSE, n |-> 0]
Limit(n) == [given |-> TRUE, n |-> n]
HistoryLimits == {NoLimit} \cup {Limit(n) : n \in {-1, 0, 1, 2, 7}}

(* a Python slice txs[start:] of a list *)
SliceFrom(txs, start) ==
    LET n == Len(txs)
        first == IF start < 0
                 THEN (IF n + start < 0 THEN 0 ELSE n + start)
                 ELSE (IF start > n THEN n ELSE start)
    IN SubSeq(txs, first + 1, n)

(* the list get_transaction_history returns *)
transaction_history(txs, limit) ==
    IF limit.given THEN SliceFrom(txs, 0 - limit.n) ELSE txs

(* the slice and the copy are new lists: same_list tells whether the   *)
(* list returned is the list object of the account                     *)
get_transaction_history(a, limit) ==
    /\ result' = [NoResult EXCEPT
                      !.op = "get_transaction_history", !.acct = a,
                      !.idx = limit, !.before = balance[a],
                      !.ret = [list |-> transaction_history(transactions[a],
                                                            limit),
                               same_list |-> FALSE]]
    /\ UNCHANGED <<balance, is_active, transactions, accounts, loan, bank>>

(* the ledger with fewer amounts and its history read back *)
LedgerDepositInputs == {Dec(20001)}
LedgerWithdrawInputs == {Dec(12345)}
LedgerTransferInputs == {Dec(0), Dec(3000)}

NextLedger ==
    \/ \E a \in Accounts, arg \in LedgerDepositInputs : deposit(a, arg)
    \/ \E a \in Accounts, arg \in LedgerWithdrawInputs : withdraw(a, arg)
    \/ \E a \in Accounts, arg \in LedgerTransferInputs, r \in Accounts :
           transfer(a, arg, r)
    \/ \E a \in Accounts, i \in 1..MaxTxns : reverse(a, i)
    \/ \E id \in Accounts : close_account(id)
    \/ \E a \in Accounts, limit \in HistoryLimits :
           get_transaction_history(a, limit)

SpecLedger == Init /\ [][NextLedger]_vars

(* ------------------------------------------------------------------ *)
(* Bank: the registries of customers, accounts and loans               *)
(* ------------------------------------------------------------------ *)
(* Customer and Account objects constructed after the Bank, loans     *)
(* created and Transactions created after the Bank                     *)
MaxNewCustomers == 1
MaxNewAccounts == 2
MaxLoans == 1
MaxBankTxns == 3

NoCustomer == "none"

(* the customers, accounts and initial deposits of                    *)
(* _initialize_test_data; each of these objects is named by its id     *)
TestCustomers == <<"CUST-1001", "CUST-1002", "CUST-1003">>
TestAccounts ==
    <<[id |-> "ACC-2001", customer |-> "CUST-1001", deposit |-> 100000],
      [id |-> "ACC-2002", customer |-> "CUST-1001", deposit |-> 500000],
      [id |-> "ACC-2003", customer |-> "CUST-1002", deposit |-> 250000],
      [id |-> "ACC-2004", customer |-> "CUST-1003", deposit |-> 300000]>>

(* the objects callers construct afterwards, in the order constructed *)
NewCustomers == <<"Customer#1", "Customer#2">>
NewAccounts == <<"Account#1", "Account#2", "Account#3">>

Range(s) == {s[i] : i \in DOMAIN s}
TestAccountIds == {TestAccounts[i].id : i \in DOMAIN TestAccounts}
CustomerObjects == Range(TestCustomers) \cup Range(NewCustomers)
AccountObjects == TestAccountIds \cup Range(NewAccounts)
CustomerIds == Range(TestCustomers) \cup {"CUST-1004"}
AccountIds == TestAccountIds \cup {"ACC-3001"}

(* the arguments of the calls made on the Bank *)
BankCustomerInputs == {"CUST-1001", "CUST-1004"}
BankAccountInputs == {"ACC-2001", "ACC-2002", "ACC-3001"}
BankTransferInputs == {Dec(100000)}
BankLoanInputs == {Dec(-500), Dec(1000), Dec(12345), Dec(10000000)}

(* the state Bank.__init__ leaves.  bank.customers is Bank.customers,  *)
(* accounts is Bank.accounts, bank.loans is Bank.loans in the order of *)
(* insertion; customer_accounts and customer_loans are the accounts    *)
(* (a dict, in the order of insertion) and the loans of each Customer; *)
(* account_id and account_customer are the id and the customer of each *)
(* Account constructed.                                                *)
InitBank ==
    LET test(o) == CHOOSE i \in DOMAIN TestAccounts : TestAccounts[i].id = o
        init == [o \in AccountObjects |->
                    IF o \in TestAccountIds
                    THEN deposit_apply([x \in {o} |-> 0], [x \in {o} |-> <<>>],
                                       o, TestAccounts[test(o)].deposit)
                    ELSE [balance |-> [x \in {o} |-> 0],
                          transactions |-> [x \in {o} |-> <<>>]]]
        held(c) == SelectSeq(TestAccounts, LAMBDA t : t.customer = c)
    IN
    /\ balance = [o \in AccountObjects |-> init[o].balance[o]]
    /\ is_active = [o \in AccountObjects |-> TRUE]
    /\ transactions = [o \in AccountObjects |-> init[o].transactions[o]]
    /\ accounts = [id \in AccountIds |->
                      IF id \in TestAccountIds THEN id ELSE NoAccount]
    /\ result = NoResult
    /\ loan = NoLoan
    /\ bank = [customers |->
                   [cid \in CustomerIds |->
                       IF cid \in Range(TestCustomers) THEN cid
                       ELSE NoCustomer],
               customer_accounts |->
                   [c \in CustomerObjects |->
                       [i \in 1..Len(held(c)) |-> held(c)[i].id]],
               customer_loans |-> [c \in CustomerObjects |-> <<>>],
               account_id |->
                   [o \in AccountObjects |->
                       IF o \in TestAccountIds THEN o ELSE NoAccount],
               account_customer |->
                   [o \in AccountObjects |->
                       IF o \in TestAccountIds
                       THEN TestAccounts[test(o)].customer ELSE NoCustomer],
               loans |-> <<>>,
               new_customers |-> 0,
               new_accounts |-> 0]

BankCreated(txs) ==
    SumOver(AccountObjects, [o \in AccountObjects |-> Len(txs[o])])
        - Len(TestAccounts)

BankBounded ==
    /\ BankCreated(transactions') <= MaxBankTxns
    /\ Len(bank'.loans) <= MaxLoans

BankCall(op, id) == [NoResult EXCEPT !.op = op, !.acct = id]

(* Bank.add_customer of a new Customer object with the id cid *)
add_customer_err(cid, customers) ==
    IF customers[cid] # NoCustomer THEN "DuplicateId" ELSE "ok"

add_customer(cid) ==
    /\ bank.new_customers < MaxNewCustomers
    /\ bank.new_customers < Len(NewCustomers)
    /\ \E c \in {NewCustomers[bank.new_customers + 1]} :
          IF add_customer_err(cid, bank.customers) # "ok"
          THEN /\ result' = [BankCall("add_customer", cid) EXCEPT
                                 !.err = add_customer_err(cid, bank.customers),
                                 !.raised_by = "add_customer", !.ret = c]
               /\ UNCHANGED bank
          ELSE /\ result' = [BankCall("add_customer", cid) EXCEPT !.ret = c]
               /\ bank' = [bank EXCEPT !.customers[cid] = c,
                                       !.new_customers = @ + 1]
    /\ UNCHANGED <<balance, is_active, transactions, accounts, loan>>

(* Customer.add_account: the error it raises, held being the accounts *)
(* of the customer                                                     *)
customer_add_account_err(id, held, account_id) ==
    IF \E i \in DOMAIN held : account_id[held[i]] = id
    THEN "DuplicateId" ELSE "ok"

(* Bank.add_account: the error it raises itself *)
add_account_err_NoDuplicateCheck(id, accts) == "ok"
add_account_err(id, accts) ==
    IF accts[id] # NoAccount THEN "DuplicateId" ELSE "ok"

(* Bank.add_account of a new Account object with the id given, made   *)
(* for the customer registered as cid: Bank.accounts is assigned       *)
(* before Customer.add_account is called, and nothing catches what it  *)
(* raises                                                              *)
add_account(id, cid) ==
    /\ bank.customers[cid] # NoCustomer
    /\ bank.new_accounts < MaxNewAccounts
    /\ bank.new_accounts < Len(NewAccounts)
    /\ \E o \in {NewAccounts[bank.new_accounts + 1]},
          c \in {bank.customers[cid]} :
          LET call == [BankCall("add_account", id) EXCEPT
                           !.recipient = c, !.ret = o]
              made == [bank EXCEPT !.account_id[o] = id,
                                   !.account_customer[o] = c,
                                   !.new_accounts = @ + 1]
              cerr == customer_add_account_err(id, bank.customer_accounts[c],
                                               bank.account_id)
          IN IF add_account_err(id, accounts) # "ok"
             THEN /\ result' = [call EXCEPT
                                    !.err = add_account_err(id, accounts),
                                    !.raised_by = "Bank.add_account"]
                  /\ UNCHANGED <<accounts, bank>>
             ELSE IF cerr # "ok"
             THEN /\ result' = [call EXCEPT
                                    !.err = cerr,
                                    !.raised_by = "Customer.add_account"]
                  /\ accounts' = [accounts EXCEPT ![id] = o]
                  /\ bank' = made
             ELSE /\ result' = call
                  /\ accounts' = [accounts EXCEPT ![id] = o]
                  /\ bank' = [made EXCEPT
                                 !.customer_accounts[c] = Append(@, o)]
    /\ UNCHANGED <<balance, is_active, transactions, loan>>

(* transfer_funds: the two get_account calls, the error they raise and *)
(* the accounts they return                                            *)
transfer_funds_accounts_Swapped(from_id, to_id, accts) ==
    IF accts[from_id] = NoAccount \/ accts[to_id] = NoAccount
    THEN [err |-> "NotFound", from |-> NoAccount, to |-> NoAccount]
    ELSE [err |-> "ok", from |-> accts[to_id], to |-> accts[from_id]]
transfer_funds_accounts(from_id, to_id, accts) ==
    IF accts[from_id] = NoAccount \/ accts[to_id] = NoAccount
    THEN [err |-> "NotFound", from |-> NoAccount, to |-> NoAccount]
    ELSE [err |-> "ok", from |-> accts[from_id], to |-> accts[to_id]]

transfer_funds(from_id, to_id, arg) ==
    /\ \E g \in {transfer_funds_accounts(from_id, to_id, accounts)} :
          LET call == [BankCall("transfer_funds", from_id) EXCEPT
                           !.recipient = to_id, !.amount = arg]
          IN IF g.err # "ok"
             THEN /\ result' = [call EXCEPT !.err = g.err,
                                            !.raised_by = "get_account"]
                  /\ UNCHANGED <<balance, transactions>>
             ELSE \E o \in {transfer_apply(balance, transactions, is_active,
                                           g.from, arg, g.to)} :
                     /\ balance' = o.balance
                     /\ transactions' = o.transactions
                     /\ result' = [call EXCEPT
                                       !.err = o.err,
                                       !.raised_by = o.raised_by,
                                       !.ret = o.ret,
                                       !.before = balance[g.from]]
    /\ UNCHANGED <<is_active, accounts, loan, bank>>
    /\ BankBounded

(* Customer.get_total_balance: sum() over the accounts held, each     *)
(* addition rounded by the context                                     *)
RECURSIVE get_total_balance(_, _)
get_total_balance(held, bal) ==
    IF held = <<>> THEN 0
    ELSE DecAdd(get_total_balance(SubSeq(held, 1, Len(held) - 1), bal),
                bal[held[Len(held)]])

(* create_loan: the error raised before the loan is registered *)
create_loan_err(customers, held, bal, cid, arg) ==
    IF customers[cid] = NoCustomer THEN "NotFound"
    ELSE IF D_lt(D(get_total_balance(held, bal), -2),
                 D_mul(D(arg.value, -2), D(1, -1)))
    THEN "InsufficientCredit"
    ELSE IF arg.value <= 0 THEN "AssertionError"
    ELSE "ok"

(* create_loan: the Loan is put in Bank.loans and in the loans of the *)
(* customer, and then deposited on the first account of the customer;  *)
(* nothing catches what next() or deposit raises                       *)
create_loan(cid, arg) ==
    /\ \E c \in {bank.customers[cid]} :
       \E held \in {IF c = NoCustomer THEN <<>>
                    ELSE bank.customer_accounts[c]} :
       \E err \in {create_loan_err(bank.customers, held, balance, cid, arg)} :
          LET call == [BankCall("create_loan", cid) EXCEPT !.amount = arg]
              l == [customer |-> c,
                    loan |-> Loan(D(arg.value, -2), LOAN_INTEREST_RATE,
                                  LOAN_TERM_YEARS)]
              registered ==
                  [bank EXCEPT !.loans = Append(@, l),
                               !.customer_loans[c] =
                                   Append(@, Len(bank.loans) + 1)]
          IN IF err # "ok"
             THEN /\ result' = [call EXCEPT
                                    !.err = err,
                                    !.raised_by =
                                        IF err = "NotFound"
                                        THEN "get_customer"
                                        ELSE IF err = "AssertionError"
                                        THEN "Loan" ELSE "create_loan"]
                  /\ UNCHANGED <<balance, transactions, bank>>
             ELSE IF held = <<>>
             THEN /\ result' = [call EXCEPT !.err = "StopIteration",
                                            !.raised_by = "next"]
                  /\ bank' = registered
                  /\ UNCHANGED <<balance, transactions>>
             ELSE IF deposit_err(arg) # "ok"
             THEN /\ result' = [call EXCEPT
                                    !.err = deposit_err(arg),
                                    !.raised_by = RaisedBy(arg, "deposit"),
                                    !.recipient = held[1]]
                  /\ bank' = registered
                  /\ UNCHANGED <<balance, transactions>>
             ELSE \E s \in {deposit_apply(balance, transactions, held[1],
                                          validate_amount(arg))} :
                     /\ result' = [call EXCEPT
                                       !.recipient = held[1],
                                       !.ret = Len(bank.loans) + 1]
                     /\ bank' = registered
                     /\ balance' = s.balance
                     /\ transactions' = s.transactions
    /\ BankBounded
    /\ UNCHANGED <<is_active, accounts, loan>>

NextBank ==
    \/ \E cid \in BankCustomerInputs : add_customer(cid)
    \/ \E id \in BankAccountInputs, cid \in BankCustomerInputs :
           add_account(id, cid)
    \/ \E id \in BankAccountInputs : close_account(id)
    \/ \E from_id, to_id \in BankAccountInputs, arg \in BankTransferInputs :
           transfer_funds(from_id, to_id, arg)
    \/ \E cid \in BankCustomerInputs, arg \in BankLoanInputs :
           create_loan(cid, arg)

SpecBank == InitBank /\ [][NextBank]_vars

(* ================================================================== *)
(* Properties                                                          *)
(* ================================================================== *)
RECURSIVE SumAmounts(_)
SumAmounts(txs) ==
    IF txs = <<>> THEN 0 ELSE Head(txs).amount + SumAmounts(Tail(txs))

IsNumber(arg) == arg.type \in {"Decimal", "float", "str"}

Last(seq) == seq[Len(seq)]

(* C1: in every reachable state the balance of every account equals   *)
(* the exact signed sum of the amounts of its Transactions.            *)
C1_LedgerSum ==
    \A a \in Accounts : balance[a] = SumAmounts(transactions[a])

(* C2: a transfer that fails, whichever step raises, leaves the        *)
(* balances and the transaction lists of both accounts as they were.   *)
C2_TransferAllOrNothing ==
    [][(result'.op = "transfer" /\ result'.err # "ok")
          => UNCHANGED <<balance, transactions>>]_vars

(* C3: when a transfer passes its own checks and the sender is         *)
(* inactive, or the amount is below 20.00, above 5000.00 or above the  *)
(* sender's balance, the call fails in self.withdraw, the deposit to   *)
(* the recipient does not happen, and the balance and transaction list *)
(* of both accounts are unchanged.                                     *)
WithdrawStepFails(a, r, arg) ==
    /\ IsNumber(arg) /\ arg.value > 0
    /\ a # r /\ is_active[r]
    /\ \/ ~is_active[a]
       \/ arg.value < 2000
       \/ arg.value > 500000
       \/ arg.value > balance[a]

C3_TransferWithdrawFailure ==
    [][(result'.op = "transfer"
          /\ WithdrawStepFails(result'.acct, result'.recipient, result'.amount))
          => /\ result'.err \in {"AccountInactive", "BelowMinimum",
                                 "ExceedsDailyLimit", "InsufficientFunds"}
             /\ result'.raised_by = "withdraw"
             /\ UNCHANGED <<balance, transactions>>]_vars

(* a transfer of more than a funded sender holds was refused by withdraw *)
C3_Witness ==
    /\ result.op = "transfer"
    /\ result.raised_by = "withdraw"
    /\ result.err = "InsufficientFunds"
    /\ balance[result.acct] > 0
    /\ is_active[result.acct]
    /\ result.amount.value <= 500000

(* C4: a successful transfer moves exactly amount from the sender to   *)
(* the recipient, appends withdrawal(-amount) then transfer(-amount)   *)
(* to the sender and deposit(+amount) to the recipient, and returns    *)
(* the transfer Transaction.                                           *)
C4_TransferEffect ==
    [][(result'.op = "transfer" /\ result'.err = "ok") =>
          LET a == result'.acct
              r == result'.recipient
              x == result'.amount.value
          IN /\ balance'[a] = balance[a] - x
             /\ balance'[r] = balance[r] + x
             /\ balance'[a] + balance'[r] = balance[a] + balance[r]
             /\ transactions'[a] =
                   transactions[a] \o <<Transaction(-x, "withdrawal", 0),
                                        Transaction(-x, "transfer", 0)>>
             /\ transactions'[r] =
                   Append(transactions[r], Transaction(x, "deposit", 0))
             /\ result'.ret = Len(transactions'[a])]_vars

(* C5: deposit fails with InvalidAmount for amount <= 0 and with       *)
(* BelowMinimum for 0 < amount < 50.00, changing nothing; for          *)
(* amount >= 50.00 it appends one deposit Transaction of +amount,      *)
(* adds exactly amount to the balance and returns that Transaction.    *)
C5_Deposit ==
    [][(result'.op = "deposit" /\ IsNumber(result'.amount)) =>
          LET a == result'.acct
              x == result'.amount.value
          IN /\ x <= 0 => /\ result'.err = "InvalidAmount"
                          /\ UNCHANGED <<balance, transactions>>
             /\ (0 < x /\ x < 5000) => /\ result'.err = "BelowMinimum"
                                       /\ UNCHANGED <<balance, transactions>>
             /\ x >= 5000 =>
                   /\ result'.err = "ok"
                   /\ transactions' = [transactions EXCEPT
                         ![a] = Append(@, Transaction(x, "deposit", 0))]
                   /\ balance' = [balance EXCEPT ![a] = @ + x]
                   /\ result'.ret = Len(transactions'[a])]_vars

(* C6: the error of a withdraw is the first that applies in the order  *)
(* InvalidAmount, AccountInactive, BelowMinimum, ExceedsDailyLimit,    *)
(* InsufficientFunds, and a failed withdraw changes neither the        *)
(* balance nor the transactions.                                       *)
C6_WithdrawPrecedence ==
    [][(result'.op = "withdraw" /\ IsNumber(result'.amount)) =>
          LET a == result'.acct
              x == result'.amount.value
          IN /\ x <= 0 => result'.err = "InvalidAmount"
             /\ (x > 0 /\ ~is_active[a]) => result'.err = "AccountInactive"
             /\ (x > 0 /\ is_active[a] /\ x < 2000)
                   => result'.err = "BelowMinimum"
             /\ (x >= 2000 /\ is_active[a] /\ x > 500000)
                   => result'.err = "ExceedsDailyLimit"
             /\ (x >= 2000 /\ is_active[a] /\ x <= 500000 /\ x > balance[a])
                   => result'.err = "InsufficientFunds"
             /\ result'.err # "ok" => UNCHANGED <<balance, transactions>>]_vars

(* a withdraw on a closed account of an amount that is also below the  *)
(* minimum and above the balance reported AccountInactive              *)
C6_Witness ==
    /\ result.op = "withdraw"
    /\ result.err = "AccountInactive"
    /\ ~is_active[result.acct]
    /\ result.amount.value < 2000
    /\ result.amount.value > balance[result.acct]

(* C7: withdraw succeeds exactly when the account is active,           *)
(* 20.00 <= amount <= 5000.00 and amount <= balance; on success it     *)
(* appends one withdrawal Transaction of -amount and the balance       *)
(* decreases by exactly amount.                                        *)
C7_Withdraw ==
    [][(result'.op = "withdraw" /\ IsNumber(result'.amount)) =>
          LET a == result'.acct
              x == result'.amount.value
          IN /\ result'.err = "ok" <=>
                   (is_active[a] /\ 2000 <= x /\ x <= 500000 /\ x <= balance[a])
             /\ result'.err = "ok" =>
                   /\ transactions' = [transactions EXCEPT
                         ![a] = Append(@, Transaction(-x, "withdrawal", 0))]
                   /\ balance' = [balance EXCEPT ![a] = @ - x]]_vars

(* C8: deposit(X) followed by withdraw(X) on the same account, for     *)
(* X >= 50.00, leaves the balance the account had before the deposit.  *)
C8_RoundTrip ==
    [][(/\ result.op = "deposit" /\ result.err = "ok"
        /\ result.amount.value >= 5000
        /\ result'.op = "withdraw"
        /\ result'.acct = result.acct
        /\ IsNumber(result'.amount)
        /\ result'.amount.value = result.amount.value)
          => balance'[result.acct] = result.before]_vars

(* C9: a successful reverse of Transaction t appends one reversal      *)
(* Transaction of -t.amount, changes the balance by exactly -t.amount  *)
(* and keeps t in the ledger.                                          *)
C9_ReverseNullifies ==
    [][(result'.op = "reverse" /\ result'.err = "ok") =>
          LET a == result'.acct
              i == result'.idx
              t == transactions[a][i]
          IN /\ Len(transactions'[a]) = Len(transactions[a]) + 1
             /\ Last(transactions'[a]).type = "reversal"
             /\ Last(transactions'[a]).amount = -t.amount
             /\ balance'[a] = balance[a] - t.amount
             /\ transactions'[a][i].amount = t.amount
             /\ transactions'[a][i].type = t.type]_vars

(* C10: the status of a Transaction only ever changes from completed   *)
(* to reversed; reverse on a Transaction that is not completed fails   *)
(* with NotCompleted and changes nothing; no Transaction has more than *)
(* one reversal entry in its ledger.                                   *)
ReversalsOf(txs, i) ==
    {j \in 1..Len(txs) : txs[j].type = "reversal" /\ txs[j].of = i}

C10_ReverseOnce ==
    [][/\ \A a \in Accounts : \A i \in 1..Len(transactions[a]) :
             transactions'[a][i].status # transactions[a][i].status
                => /\ transactions[a][i].status = "completed"
                   /\ transactions'[a][i].status = "reversed"
       /\ (result'.op = "reverse"
             /\ transactions[result'.acct][result'.idx].status # "completed")
             => /\ result'.err = "NotCompleted"
                /\ UNCHANGED <<balance, transactions, is_active, accounts>>
       /\ \A a \in Accounts : \A i \in 1..Len(transactions'[a]) :
             Cardinality(ReversalsOf(transactions'[a], i)) <= 1]_vars

(* a second reverse of a reversed Transaction was refused *)
C10_Witness ==
    /\ result.op = "reverse"
    /\ result.err = "NotCompleted"
    /\ transactions[result.acct][result.idx].status = "reversed"
    /\ Cardinality(ReversalsOf(transactions[result.acct], result.idx)) = 1

(* C20: close_account(id) on a registered account fails with           *)
(* NonZeroBalance whenever its balance is not 0, and the account stays *)
(* active and registered; with balance 0 it sets is_active to false    *)
(* and removes id from Bank.accounts; an id leaves the registry only   *)
(* into a state where its account has balance 0 and is inactive, and   *)
(* get_account(id) on an id not registered fails with NotFound.        *)
C20_CloseAccount ==
    [][/\ (result'.op = "close_account"
             /\ accounts[result'.acct] # NoAccount)
             => LET id == result'.acct
                    a == accounts[id]
                IN IF balance[a] # 0
                   THEN /\ result'.err = "NonZeroBalance"
                        /\ is_active'[a]
                        /\ accounts'[id] = a
                        /\ UNCHANGED <<balance, transactions>>
                   ELSE /\ result'.err = "ok"
                        /\ ~is_active'[a]
                        /\ accounts'[id] = NoAccount
       /\ \A id \in Accounts :
             (accounts[id] # NoAccount /\ accounts'[id] = NoAccount)
                => /\ result'.op = "close_account"
                   /\ balance'[accounts[id]] = 0
                   /\ ~is_active'[accounts[id]]
       /\ (result'.op = "get_account"
             /\ accounts[result'.acct] = NoAccount)
             => result'.err = "NotFound"]_vars

(* an account that had been used was closed at balance 0, and          *)
(* get_account on its id then failed                                   *)
C20_Witness ==
    /\ result.op = "get_account"
    /\ result.err = "NotFound"
    /\ accounts[result.acct] = NoAccount
    /\ ~is_active[result.acct]
    /\ balance[result.acct] = 0
    /\ Len(transactions[result.acct]) >= 2

(* ================================================================== *)
(* Loan properties (SpecLoan)                                          *)
(* ================================================================== *)
(* exact arithmetic on Decimal values, for stating what a payment      *)
(* should be: no context rounding                                      *)
X_add(x, y) ==
    LET e == Min2(x.e, y.e) IN D_norm(AtExp(x, e) + AtExp(y, e), e)
X_sub(x, y) ==
    LET e == Min2(x.e, y.e) IN D_norm(AtExp(x, e) - AtExp(y, e), e)
X_mul(x, y) == D_norm(x.c * y.c, x.e + y.e)
X_abs(x) == [c |-> Abs(x.c), e |-> x.e]

Cent == D(1, -2)

(* C11: in every state reached from a validly constructed Loan by      *)
(* make_payment calls, remaining_amount >= 0, and remaining_amount is  *)
(* 0 if and only if is_active is false.                                *)
C11_LoanInvariant ==
    /\ D_le(D_zero, loan.remaining_amount)
    /\ (loan.remaining_amount = D_zero) <=> ~loan.is_active

(* C12: make_payment(amount) with amount > remaining_amount on an      *)
(* active loan is accepted, the recorded LoanPayment.amount is the     *)
(* remaining_amount before the call, and after it remaining_amount is  *)
(* 0 and is_active is false.                                           *)
C12_OverpaymentCloses ==
    [][(/\ result'.op = "make_payment"
        /\ loan.is_active
        /\ D_lt(loan.remaining_amount, result'.amount))
          => /\ result'.err = "ok"
             /\ result'.ret.amount = loan.remaining_amount
             /\ loan'.remaining_amount = D_zero
             /\ ~loan'.is_active]_vars

(* C13: no make_payment call leaves remaining_amount larger than it    *)
(* was before the call, and is_active changes from true to false in    *)
(* exactly the step in which remaining_amount becomes 0.               *)
C13_RemainingMonotone ==
    [][result'.op = "make_payment"
          => /\ D_le(loan'.remaining_amount, loan.remaining_amount)
             /\ (loan.is_active /\ ~loan'.is_active)
                   <=> (/\ loan.remaining_amount # D_zero
                        /\ loan'.remaining_amount = D_zero)]_vars

(* C14: make_payment on an inactive loan fails with LoanInactive, and  *)
(* with amount <= 0 on an active loan fails with InvalidAmount; both   *)
(* leave remaining_amount, payments and is_active unchanged; once      *)
(* is_active is false no make_payment succeeds and the loan never      *)
(* changes again.                                                      *)
C14_RejectsWithoutChange ==
    [][/\ (result'.op = "make_payment" /\ ~loan.is_active)
             => result'.err = "LoanInactive"
       /\ (result'.op = "make_payment" /\ loan.is_active
             /\ D_le(result'.amount, D_zero))
             => result'.err = "InvalidAmount"
       /\ (result'.op = "make_payment"
             /\ result'.err \in {"LoanInactive", "InvalidAmount"})
             => loan' = loan
       /\ ~loan.is_active => loan' = loan]_vars

(* a positive payment was refused on a loan that an earlier payment    *)
(* had closed                                                          *)
C14_Witness ==
    /\ result.op = "make_payment"
    /\ result.err = "LoanInactive"
    /\ D_lt(D_zero, result.amount)
    /\ ~loan.is_active
    /\ Len(loan.payments) >= 1

(* C15: a successful make_payment appends exactly one LoanPayment;     *)
(* with a its (capped) amount, R the remaining_amount before the call  *)
(* and r = interest_rate / 12: if a <= R*r the payment has interest a  *)
(* and principal 0 and remaining_amount is unchanged; otherwise its    *)
(* interest is R*r and its principal a - R*r (both to within the       *)
(* minimum unit 0.01, R*r being no decimal in general) and             *)
(* remaining_amount decreases by exactly principal.  The comparisons   *)
(* are made on 12*a and 12*R*r, which are exact decimals.              *)
Twelve == D(12, 0)

C15_Allocation ==
    [][(result'.op = "make_payment" /\ result'.err = "ok")
          => LET p == result'.ret
                 R == loan.remaining_amount
                 Rr12 == X_mul(R, loan.interest_rate)
                 near(x) == D_lt(X_abs(X_sub(X_mul(Twelve, x), Rr12)),
                                 X_mul(Twelve, Cent))
             IN /\ loan'.payments = Append(loan.payments, p)
                /\ IF D_le(X_mul(Twelve, p.amount), Rr12)
                   THEN /\ p.interest = p.amount
                        /\ p.principal = D_zero
                        /\ loan'.remaining_amount = R
                   ELSE /\ near(p.interest)
                        /\ near(X_sub(p.amount, p.principal))
                        /\ loan'.remaining_amount
                              = X_sub(R, p.principal)]_vars

(* C16: every LoanPayment stored in payments has                       *)
(* abs(principal + interest - amount) < 0.01; a make_payment whose     *)
(* split would not fails with PaymentMismatch, and a PaymentMismatch   *)
(* leaves remaining_amount, payments and is_active unchanged.          *)
Reconstructs(p) ==
    D_lt(X_abs(X_sub(X_add(p.principal, p.interest), p.amount)), Cent)

C16_Reconstruction ==
    [][result'.op = "make_payment"
          => /\ \A i \in 1..Len(loan'.payments) :
                   Reconstructs(loan'.payments[i])
             /\ (/\ make_payment_err(loan, result'.amount) = "ok"
                 /\ ~Reconstructs(make_payment_split(loan, result'.amount)))
                   => result'.err = "PaymentMismatch"
             /\ result'.err = "PaymentMismatch" => loan' = loan]_vars

(* ================================================================== *)
(* Amortization schedule properties (SpecSchedule)                     *)
(* ================================================================== *)
(* the exact sum of the principal entries of rows lo..hi *)
RECURSIVE SumPrincipal(_, _, _)
SumPrincipal(rows, lo, hi) ==
    IF lo > hi THEN D_zero
    ELSE IF lo = hi THEN rows[lo].principal
    ELSE LET mid == (lo + hi) \div 2
         IN X_add(SumPrincipal(rows, lo, mid),
                  SumPrincipal(rows, mid + 1, hi))

(* C17: the principal entries of the rows returned by                  *)
(* generate_amortization_schedule() add up to original_amount within   *)
(* rounding tolerance (here as much as 0.01 for each row), also when   *)
(* the loop stops before term_months.                                  *)
C17_PrincipalSum ==
    (result.op = "generate_amortization_schedule" /\ result.err = "ok")
       => D_le(X_abs(X_sub(SumPrincipal(result.ret, 1, Len(result.ret)),
                            loan.original_amount)),
               X_mul(D(Len(result.ret), 0), Cent))

(* C18: generate_amortization_schedule() always returns; its rows are  *)
(* between 1 and term_months, their months are 1, 2, 3, ...; every     *)
(* balance is >= 0, the last one is 0 and no row follows a row of      *)
(* balance 0; the schedule is that of the loan as it was constructed,  *)
(* whatever payments were made since.                                  *)
C18_ScheduleShape ==
    result.op = "generate_amortization_schedule"
       => LET rows == result.ret
              n == Len(rows)
          IN /\ result.err = "ok"
             /\ 1 <= n /\ n <= loan.term_months
             /\ \A i \in 1..n :
                   /\ rows[i].month = i
                   /\ D_le(D_zero, rows[i].balance)
                   /\ rows[i].balance = D_zero => i = n
             /\ rows[n].balance = D_zero
             /\ rows = amortization_schedule(
                           [loan EXCEPT
                               !.remaining_amount = loan.original_amount,
                               !.payments = <<>>,
                               !.is_active = TRUE]).rows

(* C19: get_remaining_payments() returns the rows of the schedule      *)
(* after its first k rows, k being the number of LoanPayments          *)
(* recorded: max(0, len(schedule) - k) rows, the first of month k + 1, *)
(* none once k >= len(schedule); it fails exactly when the schedule    *)
(* does, and it leaves the loan as it was.                             *)
C19_RemainingPayments ==
    result.op = "get_remaining_payments"
       => LET s == amortization_schedule(loan)
              k == Len(loan.payments)
              ret == result.ret
          IN /\ loan = result.before
             /\ result.err = s.err
             /\ s.err = "ok"
                   => /\ Len(ret) = IF Len(s.rows) > k
                                    THEN Len(s.rows) - k ELSE 0
                      /\ \A i \in 1..Len(ret) : ret[i] = s.rows[k + i]
                      /\ Len(ret) > 0 => ret[1].month = k + 1
                      /\ k >= Len(s.rows) => ret = <<>>

(* after some payments, the rest of the schedule was returned *)
C19_Witness ==
    /\ result.op = "get_remaining_payments"
    /\ result.err = "ok"
    /\ Len(loan.payments) >= 2
    /\ Len(result.ret) >= 1
    /\ result.ret[1].month = Len(loan.payments) + 1

(* payments outnumbered the rows of the schedule and none was returned *)
C19_WitnessExhausted ==
    /\ result.op = "get_remaining_payments"
    /\ result.err = "ok"
    /\ Len(loan.payments) >= Len(amortization_schedule(loan).rows)
    /\ result.ret = <<>>

(* ================================================================== *)
(* Ledger safety properties (Spec)                                     *)
(* ================================================================== *)

(* C29: the balance of an account is never negative in any state      *)
(* reached by deposit, withdraw, transfer and reverse                  *)
C29_BalanceNonNegative ==
    \A a \in Accounts : balance[a] >= 0

(* C30: a closed account is frozen: once is_active is false, no step  *)
(* changes the balance or the transactions of the account, and its    *)
(* balance stays 0                                                     *)
C30_ClosedFrozen ==
    [][\A a \in Accounts :
          ~is_active[a] =>
              /\ balance'[a] = balance[a]
              /\ transactions'[a] = transactions[a]
              /\ balance'[a] = 0]_vars

(* ================================================================== *)
(* Ledger properties (SpecLedger)                                      *)
(* ================================================================== *)
(* the last min(n, Len(txs)) elements of txs, in order *)
LastN(txs, n) ==
    SubSeq(txs, (IF n >= Len(txs) THEN 0 ELSE Len(txs) - n) + 1, Len(txs))

(* C25: get_transaction_history(limit) returns, for every integer     *)
(* limit >= 0, the last min(limit, n) transactions in insertion order  *)
(* and all n when the limit is omitted; it changes neither balance nor *)
(* transactions, and the list returned without a limit is not the      *)
(* list of the account                                                 *)
C25_History ==
    [][result'.op = "get_transaction_history" =>
          LET a == result'.acct
              limit == result'.idx
          IN /\ UNCHANGED <<balance, transactions>>
             /\ ~limit.given =>
                   /\ result'.ret.list = transactions[a]
                   /\ ~result'.ret.same_list
             /\ (limit.given /\ limit.n >= 0) =>
                   result'.ret.list = LastN(transactions[a], limit.n)]_vars

(* C24 as stated: transfer rejects a self-transfer with SameAccount    *)
(* and a transfer to an inactive recipient with RecipientInactive, for *)
(* every amount argument, and changes neither balance nor ledger       *)
C24_RejectsForEveryAmount ==
    [][result'.op = "transfer" =>
          LET a == result'.acct
              r == result'.recipient
          IN /\ a = r =>
                   /\ result'.err = "SameAccount"
                   /\ UNCHANGED <<balance, transactions>>
             /\ (a # r /\ ~is_active[r]) =>
                   /\ result'.err = "RecipientInactive"
                   /\ UNCHANGED <<balance, transactions>>]_vars

(* C24 amended: with an amount _validate_amount accepts, transfer      *)
(* rejects a self-transfer with SameAccount and a transfer to another, *)
(* inactive recipient with RecipientInactive; with an amount it        *)
(* rejects, the transfer fails with the error of _validate_amount; in  *)
(* all these cases neither balance nor ledger changes                  *)
C24_RejectsRecipient ==
    [][result'.op = "transfer" =>
          LET a == result'.acct
              r == result'.recipient
              valid == validate_amount_err(result'.amount) = "ok"
          IN /\ ~valid =>
                   /\ result'.err = validate_amount_err(result'.amount)
                   /\ result'.raised_by = "_validate_amount"
                   /\ UNCHANGED <<balance, transactions>>
             /\ (valid /\ a = r) =>
                   /\ result'.err = "SameAccount"
                   /\ UNCHANGED <<balance, transactions>>
             /\ (valid /\ a # r /\ ~is_active[r]) =>
                   /\ result'.err = "RecipientInactive"
                   /\ UNCHANGED <<balance, transactions>>]_vars

(* a transfer of a valid amount from an account holding it to a       *)
(* closed recipient has been rejected                                  *)
C24_Witness ==
    /\ result.op = "transfer"
    /\ result.err = "RecipientInactive"
    /\ ~is_active[result.recipient]
    /\ balance[result.acct] >= validate_amount(result.amount)

C27_Scenario ==
    [][(/\ loan = Loan(D(1000000, -2), LOAN_INTEREST_RATE, LOAN_TERM_YEARS)
        /\ result'.op = "calculate_monthly_payment"
           \/ (result'.op = "make_payment"
               /\ result'.amount = D(20276, -2))) =>
          /\ result'.err = "ok"
          /\ result'.op = "calculate_monthly_payment" =>
                D_lt(X_abs(X_sub(result'.ret, D(20276, -2))), Cent)
          /\ result'.op = "make_payment" =>
                /\ D_lt(X_abs(X_sub(result'.ret.interest, D(6667, -2))), Cent)
                /\ result'.ret.principal =
                       X_sub(D(20276, -2), result'.ret.interest)]_vars

(* ================================================================== *)
(* Registry properties (SpecBank)                                      *)
(* ================================================================== *)
(* C21: add_customer and add_account with an identifier already in    *)
(* the mapping of the Bank fail with DuplicateId and leave the three   *)
(* mappings of the Bank and the accounts of every Customer unchanged   *)
C21_DuplicateRejected ==
    [][(\/ /\ result'.op = "add_customer"
           /\ bank.customers[result'.acct] # NoCustomer
        \/ /\ result'.op = "add_account"
           /\ accounts[result'.acct] # NoAccount) =>
          /\ result'.err = "DuplicateId"
          /\ bank'.customers = bank.customers
          /\ accounts' = accounts
          /\ bank'.loans = bank.loans
          /\ bank'.customer_accounts = bank.customer_accounts]_vars

(* an Account made for a customer added after the Bank was built has  *)
(* been rejected for its id, which an Account of the test data holds   *)
C21_Witness ==
    /\ result.op = "add_account"
    /\ result.err = "DuplicateId"
    /\ result.raised_by = "Bank.add_account"
    /\ result.recipient \in Range(NewCustomers)
    /\ accounts[result.acct] \in TestAccountIds

(* the Account a Customer holds under an id, NoAccount if none *)
CustomerAccount(c, id) ==
    LET held == bank.customer_accounts[c]
    IN IF \E i \in DOMAIN held : bank.account_id[held[i]] = id
       THEN held[CHOOSE i \in DOMAIN held : bank.account_id[held[i]] = id]
       ELSE NoAccount

(* C22: the Account the Bank holds under an id is the very Account    *)
(* its owning Customer holds under that id                             *)
C22_SameAccount ==
    \A id \in AccountIds :
        accounts[id] # NoAccount =>
            CustomerAccount(bank.account_customer[accounts[id]], id)
                = accounts[id]

(* C23: transfer_funds fails with NotFound and changes no balance and *)
(* no ledger if either id is absent, and otherwise has the effect and  *)
(* the result of transfer(amount, to_account) on from_account          *)
C23_TransferFunds ==
    [][result'.op = "transfer_funds" =>
          LET from_id == result'.acct
              to_id == result'.recipient
          IN IF accounts[from_id] = NoAccount \/ accounts[to_id] = NoAccount
             THEN /\ result'.err = "NotFound"
                  /\ UNCHANGED <<balance, transactions>>
             ELSE LET o == transfer_apply(balance, transactions, is_active,
                                          accounts[from_id], result'.amount,
                                          accounts[to_id])
                  IN /\ balance' = o.balance
                     /\ transactions' = o.transactions
                     /\ result'.err = o.err
                     /\ result'.raised_by = o.raised_by
                     /\ result'.ret = o.ret]_vars

(* a transfer_funds between two different accounts has moved money *)
C23_Witness ==
    /\ result.op = "transfer_funds"
    /\ result.err = "ok"
    /\ result.acct # result.recipient
    /\ balance[accounts[result.acct]] < result.before

(* C28: create_loan either registers the Loan with the Bank and the   *)
(* customer and credits exactly amount to the first account of the     *)
(* customer, or fails and leaves the loans of the Bank and of the      *)
(* customer, every balance and every ledger unchanged                  *)
C28_CreateLoanAllOrNothing ==
    [][result'.op = "create_loan" =>
          IF result'.err = "ok"
          THEN LET c == bank.customers[result'.acct]
                   a == bank.customer_accounts[c][1]
                   amount == validate_amount(result'.amount)
               IN /\ Len(bank'.loans) = Len(bank.loans) + 1
                  /\ Len(bank'.customer_loans[c])
                         = Len(bank.customer_loans[c]) + 1
                  /\ balance' = [balance EXCEPT ![a] = @ + amount]
          ELSE /\ bank'.loans = bank.loans
               /\ bank'.customer_loans = bank.customer_loans
               /\ UNCHANGED <<balance, transactions>>]_vars

(* ================================================================== *)
(* Loan accounting (SpecLoan)                                          *)
(* ================================================================== *)
(* the exact sum of the principal of the payments recorded *)
PaidPrincipal(payments) ==
    IF payments = <<>> THEN D_zero
    ELSE SumPrincipal(payments, 1, Len(payments))

(* C31: after any sequence of make_payment calls, original_amount is  *)
(* remaining_amount plus the sum of the principal of the payments      *)
(* recorded, and a payment is recorded by each successful make_payment *)
(* and by no other call                                                *)
C31_AccountingIdentity ==
    [][/\ loan'.original_amount
              = X_add(loan'.remaining_amount, PaidPrincipal(loan'.payments))
       /\ result'.op = "make_payment" =>
              Len(loan'.payments)
                  = Len(loan.payments) + (IF result'.err = "ok" THEN 1 ELSE 0)
       /\ result'.op # "make_payment" =>
              Len(loan'.payments) = Len(loan.payments)]_vars

====
